---------------------------- MODULE Spec2Model ----------------------------
(***************************************************************************)
(* State machine of the FileUploader widget (components/FileUploader.tsx   *)
(* and its preview variant), mounted by the host page (pages/Index.tsx)    *)
(* with the upload delegate of services/fileService.ts.                    *)
(*                                                                         *)
(* One action is one UI event callback or one resumption of an awaited     *)
(* promise; React applies the state updates of a callback together, so     *)
(* each callback is one atomic step.                                       *)
(***************************************************************************)
EXTENDS Integers, Sequences, FiniteSets, TLC

VARIABLES
    variant,          \* "basic" (FileUploader.tsx) or "preview" (variant with fileContents/showPreview)
    maxSizeInMB,      \* prop maxSizeInMB = host state maxFileSize
    allowedFileTypes, \* prop allowedFileTypes = host state fileTypes (a list)
    isDragging,
    isUploading,
    uploadedFiles,    \* list of UploadedFileInfo
    error,            \* current error (Null when none)
    warnings,         \* list of warnings
    fileContents,     \* preview variant: id -> content
    showPreview,      \* preview variant: id -> boolean
    pending,          \* handleFileUpload invocations suspended at an await
    calls,            \* number of handleFileUpload invocations that passed validation
    delegateCalls,    \* number of invocations of onFileUpload
    settings,         \* number of settings changes made by the host page
    unhandledRejections \* rejections that escaped handleFileUpload

vars == <<variant, maxSizeInMB, allowedFileTypes, isDragging, isUploading,
          uploadedFiles, error, warnings, fileContents, showPreview,
          pending, calls, delegateCalls, settings, unhandledRejections>>

widget == <<isDragging, isUploading, uploadedFiles, error, warnings,
            fileContents, showPreview>>

(***************************************************************************)
(* Bounds of the exploration.                                              *)
(***************************************************************************)
MaxCalls == 2       \* accepted handleFileUpload invocations
MaxSettings == 1    \* settings changes on the host page

(***************************************************************************)
(* Program constants.                                                      *)
(***************************************************************************)
MB == 1024 * 1024
KB == 1024
DefaultMaxSizeInMB == 5
ServerLimitInMB == 10
MaxNameLength == 50

DefaultFileTypes == <<"image/jpeg", "image/png", "application/pdf">>

\* the values of the "Maximum File Size" select on the settings tab
SizeOptions == {1, 5, 10, 20, 50}

\* what the user types into the custom file type field ("" = left empty)
CustomFileTypes == {"", "text/plain", "image/png"}

(***************************************************************************)
(* Files the user can drop or pick.  A name is the sequence of its         *)
(* characters; data stands for the file's bytes.                           *)
(***************************************************************************)
ShortName == <<"a", ".", "p">>
NoDotName == <<"R", "E", "A", "D">>
LongName == [i \in 1..(MaxNameLength + 1) |-> IF i = 2 THEN "." ELSE "x"]
FiftyName == [i \in 1..MaxNameLength |-> IF i = 2 THEN "." ELSE "x"]

File(name, size, type, data) ==
    [name |-> name, size |-> size, type |-> type, data |-> data]

Files ==
    { File(FiftyName, (4 * DefaultMaxSizeInMB * MB) \div 5, "application/pdf", 1),
      File(NoDotName, (4 * DefaultMaxSizeInMB * MB) \div 5 + 1, "image/png", 2),
      File(LongName, DefaultMaxSizeInMB * MB, "image/jpeg", 3),
      File(ShortName, DefaultMaxSizeInMB * MB + 1, "application/zip", 4),
      File(ShortName, ServerLimitInMB * MB + 1, "application/pdf", 5),
      File(NoDotName, 500, "text/plain", 6) }

\* e.dataTransfer.files / e.target.files over a set of files: a list, of
\* which only [0] is used
FileLists(S) ==
    {<< >>} \cup {<<f>> : f \in S}
            \cup {<<f, g>> : f \in {x \in S : x.data = 1}, g \in {x \in S : x.data = 5}}

\* the files and the sizes the user picks while the settings change
PickedFiles == {f \in Files : f.data \in {1, 2, 5, 6}}
PickedSizes == {1, 5}

(***************************************************************************)
(* Values of error and warnings.                                           *)
(***************************************************************************)
Null == [kind |-> "null", limit |-> 0, types |-> << >>, message |-> ""]
SizeError(limit) ==
    [kind |-> "size-exceeded", limit |-> limit, types |-> << >>, message |-> ""]
TypeError(types) ==
    [kind |-> "type-not-allowed", limit |-> 0, types |-> types, message |-> ""]
MessageError(message) ==
    [kind |-> "message", limit |-> 0, types |-> << >>, message |-> message]
UploadFailedFallback == MessageError("upload failed")
ReadFailedMessage == "read failed"
ServerRejectedMessage == "Server rejected the file: File too large"

\* a value thrown by the delegate: an Error with a message, or anything else
ErrorInstance(message) == [instanceofError |-> TRUE, message |-> message]
NotAnError == [instanceofError |-> FALSE, message |-> "thrown value"]

NoSize == [hundredths |-> 0, unit |-> ""]

\* bytes -> "N B" | "X.XX KB" | "X.XX MB"; toFixed(2) rounds the exact
\* quotient to the nearest hundredth, half up
formatFileSize(bytes) ==
    IF bytes < KB THEN [hundredths |-> bytes * 100, unit |-> "B"]
    ELSE IF bytes < MB
         THEN [hundredths |-> (bytes * 100 + KB \div 2) \div KB, unit |-> "KB"]
         ELSE [hundredths |-> (bytes * 100 + MB \div 2) \div MB, unit |-> "MB"]

NearLimitWarning(size, limit) ==
    [kind |-> "near-limit", size |-> formatFileSize(size), limit |-> limit]
NameTooLongWarning == [kind |-> "name-too-long", size |-> NoSize, limit |-> 0]
NoExtensionWarning == [kind |-> "no-extension", size |-> NoSize, limit |-> 0]

(***************************************************************************)
(* Array helpers.                                                          *)
(***************************************************************************)
includes(list, x) == \E i \in 1..Len(list) : list[i] = x

\* a removal that cuts the list at the matching record
withoutIdSlice(prev, fileId) ==
    SubSeq(prev, 1, (CHOOSE i \in 1..Len(prev) : prev[i].id = fileId) - 1)

RECURSIVE withoutId(_, _)
\* prev.filter(file => file.id !== fileId)
withoutId(prev, fileId) ==
    IF prev = << >> THEN << >>
    ELSE IF Head(prev).id # fileId
         THEN <<Head(prev)>> \o withoutId(Tail(prev), fileId)
         ELSE withoutId(Tail(prev), fileId)

\* prev.filter(type => type !== typeToRemove)
withoutType(types, typeToRemove) ==
    SelectSeq(types, LAMBDA type : type # typeToRemove)

\* ({ ...prev, [key]: value })
withKey(prev, key, value) ==
    [k \in DOMAIN prev \cup {key} |-> IF k = key THEN value ELSE prev[k]]

\* a removal that returns the object as it was
withoutKeyKeepingEntry(prev, key) == prev

\* const { [key]: removed, ...rest } = prev; return rest
withoutKey(prev, key) == [k \in DOMAIN prev \ {key} |-> prev[k]]

conditional(cond, list) == IF cond THEN list ELSE << >>

(***************************************************************************)
(* validateFile                                                            *)
(***************************************************************************)
\* file.size > maxSizeInMB * 1024 * 1024
sizeExceeded(file) == file.size > maxSizeInMB * MB

\* the type rule without the test for an empty list
typeNotAllowedWhenEmpty(file) == ~includes(allowedFileTypes, file.type)

\* allowedFileTypes.length > 0 && !allowedFileTypes.includes(file.type)
typeNotAllowed(file) ==
    Len(allowedFileTypes) > 0 /\ ~includes(allowedFileTypes, file.type)

\* file.size > (maxSizeInMB * 0.8) * 1024 * 1024.  The product is computed
\* in doubles; sizes are integers and the multiplications by 1024 are exact,
\* and the rounding error of maxSizeInMB * 0.8 (relative 2^-54) never moves
\* the threshold across an integer, so the comparison is the exact one.
nearLimitInclusive(file) == 10 * file.size >= 8 * maxSizeInMB * MB

nearLimit(file) == 10 * file.size > 8 * maxSizeInMB * MB

nameTooLong(file) == Len(file.name) > MaxNameLength

noExtension(file) == ~includes(file.name, ".")

newWarnings(file) ==
    conditional(nearLimit(file), <<NearLimitWarning(file.size, maxSizeInMB)>>)
    \o conditional(nameTooLong(file), <<NameTooLongWarning>>)
    \o conditional(noExtension(file), <<NoExtensionWarning>>)

\* validateFile with the type rule tested before the size rule
validateFileTypeFirst(file) ==
    IF typeNotAllowed(file)
    THEN [ok |-> FALSE, error |-> TypeError(allowedFileTypes), warnings |-> warnings]
    ELSE IF sizeExceeded(file)
         THEN [ok |-> FALSE, error |-> SizeError(maxSizeInMB), warnings |-> warnings]
         ELSE [ok |-> TRUE, error |-> Null, warnings |-> newWarnings(file)]

\* validateFile without the setError(null) of the accepting path
validateFileKeepingError(file) ==
    IF sizeExceeded(file)
    THEN [ok |-> FALSE, error |-> SizeError(maxSizeInMB), warnings |-> warnings]
    ELSE IF typeNotAllowed(file)
         THEN [ok |-> FALSE, error |-> TypeError(allowedFileTypes), warnings |-> warnings]
         ELSE [ok |-> TRUE, error |-> error, warnings |-> newWarnings(file)]

\* the return value of validateFile and the error and warnings state it leaves
validateFile(file) ==
    IF sizeExceeded(file)
    THEN [ok |-> FALSE, error |-> SizeError(maxSizeInMB), warnings |-> warnings]
    ELSE IF typeNotAllowed(file)
         THEN [ok |-> FALSE, error |-> TypeError(allowedFileTypes), warnings |-> warnings]
         ELSE [ok |-> TRUE, error |-> Null, warnings |-> newWarnings(file)]

(***************************************************************************)
(* readFileContent (preview variant)                                       *)
(***************************************************************************)
isImage(type) == type \in {"image/png", "image/jpeg"}     \* startsWith('image/')
isText(type) == type \in {"text/plain", "application/json", "text/csv"}
isPdf(type) == type = "application/pdf"

\* a FileReader is started only for these types; the others resolve at once
usesFileReader(file) == isImage(file.type) \/ isText(file.type) \/ isPdf(file.type)

readFileContent(file) ==
    IF isImage(file.type) \/ isPdf(file.type)
    THEN [encoding |-> "dataURL", data |-> file.data]
    ELSE IF isText(file.type)
         THEN [encoding |-> "text", data |-> file.data]
         ELSE [encoding |-> "cannot-preview", data |-> 0]

(***************************************************************************)
(* services/fileService.ts                                                 *)
(***************************************************************************)
mockResponse(file, id) ==
    [id |-> id, name |-> file.name, url |-> id, size |-> file.size, type |-> file.type]

\* uploadFile: rejects files over 10 MB, resolves with a fresh record otherwise
uploadFile(file, id) ==
    IF file.size > ServerLimitInMB * MB
    THEN [ok |-> FALSE, thrown |-> ErrorInstance(ServerRejectedMessage),
          info |-> mockResponse(file, id)]
    ELSE [ok |-> TRUE, thrown |-> NotAnError, info |-> mockResponse(file, id)]

\* the outcomes of an arbitrary onFileUpload prop
DelegateOutcomes(file, id) ==
    {uploadFile(file, id)}
    \cup {[ok |-> TRUE, thrown |-> NotAnError, info |-> mockResponse(file, id)]}
    \cup {[ok |-> FALSE, thrown |-> t, info |-> mockResponse(file, id)] :
            t \in {ErrorInstance("Network Error"), ErrorInstance(""), NotAnError}}

(***************************************************************************)
(* Initial state: the page and the widget right after mounting.            *)
(***************************************************************************)
EmptyMap == [i \in {} |-> 0]

Init ==
    /\ variant \in {"basic", "preview"}
    /\ maxSizeInMB = DefaultMaxSizeInMB
    /\ allowedFileTypes = DefaultFileTypes
    /\ isDragging = FALSE
    /\ isUploading = FALSE
    /\ uploadedFiles = << >>
    /\ error = Null
    /\ warnings = << >>
    /\ fileContents = EmptyMap
    /\ showPreview = EmptyMap
    /\ pending = {}
    /\ calls = 0
    /\ delegateCalls = 0
    /\ settings = 0
    /\ unhandledRejections = 0

NoContent == [encoding |-> "none", data |-> 0]

Continuation(call, file, phase, content) ==
    [call |-> call, file |-> file, phase |-> phase, content |-> content]

(***************************************************************************)
(* handleFileUpload, up to its first suspension.  In the basic widget the  *)
(* delegate is invoked in the same callback; in the preview variant the    *)
(* FileReader is started first, and a type that needs no reader resolves   *)
(* in a microtask, before any other event is handled.                      *)
(***************************************************************************)
suspendsOnRead(file) == variant = "preview" /\ usesFileReader(file)

started(file) ==
    IF suspendsOnRead(file)
    THEN Continuation(calls + 1, file, "readFileContent", NoContent)
    ELSE Continuation(calls + 1, file, "onFileUpload",
                      IF variant = "preview" THEN readFileContent(file) ELSE NoContent)

\* handleFileUpload without the early return
returnsEarlyAlwaysProceeding(v) == FALSE

\* if (!validateFile(file)) return;
returnsEarly(v) == ~v.ok

handleFileUpload(file) ==
    LET v == validateFile(file) IN
    /\ error' = v.error
    /\ warnings' = v.warnings
    /\ IF ~returnsEarly(v)
       THEN /\ calls < MaxCalls
            /\ isUploading' = TRUE
            /\ calls' = calls + 1
            /\ pending' = pending \cup {started(file)}
            /\ delegateCalls' = IF suspendsOnRead(file) THEN delegateCalls
                                                        ELSE delegateCalls + 1
       ELSE UNCHANGED <<isUploading, calls, pending, delegateCalls>>
    /\ UNCHANGED <<uploadedFiles, fileContents, showPreview>>

\* onDrop
handleFileDrop(files) ==
    /\ isDragging' = FALSE
    /\ IF Len(files) > 0
       THEN handleFileUpload(files[1])
       ELSE UNCHANGED <<isUploading, uploadedFiles, error, warnings, fileContents,
                       showPreview, pending, calls, delegateCalls>>
    /\ UNCHANGED <<unhandledRejections, variant, maxSizeInMB, allowedFileTypes, settings>>

\* onChange of the hidden input, which is disabled while isUploading
handleFileInput(files) ==
    /\ ~isUploading
    /\ Len(files) > 0
    /\ handleFileUpload(files[1])
    /\ UNCHANGED <<unhandledRejections, variant, maxSizeInMB, allowedFileTypes, settings, isDragging>>

onDragOver ==
    /\ isDragging' = TRUE
    /\ UNCHANGED <<unhandledRejections, variant, maxSizeInMB, allowedFileTypes, isUploading, uploadedFiles,
                   error, warnings, fileContents, showPreview, pending, calls,
                   delegateCalls, settings>>

onDragLeave ==
    /\ isDragging' = FALSE
    /\ UNCHANGED <<unhandledRejections, variant, maxSizeInMB, allowedFileTypes, isUploading, uploadedFiles,
                   error, warnings, fileContents, showPreview, pending, calls,
                   delegateCalls, settings>>

(***************************************************************************)
(* handleFileUpload, resumed: the try / catch / finally around the awaits. *)
(***************************************************************************)
\* the success path without setWarnings([])
onUploadedKeepingWarnings(c, uploadedFileInfo) ==
    /\ uploadedFiles' = Append(uploadedFiles, uploadedFileInfo)
    /\ IF variant = "preview"
       THEN /\ fileContents' = withKey(fileContents, uploadedFileInfo.id, c.content)
            /\ showPreview' = withKey(showPreview, uploadedFileInfo.id, FALSE)
       ELSE UNCHANGED <<fileContents, showPreview>>
    /\ UNCHANGED <<warnings, error, unhandledRejections>>

\* the success path placing the record by the order in which uploads started
onUploadedInStartOrder(c, uploadedFileInfo) ==
    /\ uploadedFiles' =
            SelectSeq(uploadedFiles, LAMBDA info : info.id < uploadedFileInfo.id)
            \o <<uploadedFileInfo>>
            \o SelectSeq(uploadedFiles, LAMBDA info : info.id > uploadedFileInfo.id)
    /\ IF variant = "preview"
       THEN /\ fileContents' = withKey(fileContents, uploadedFileInfo.id, c.content)
            /\ showPreview' = withKey(showPreview, uploadedFileInfo.id, FALSE)
       ELSE UNCHANGED <<fileContents, showPreview>>
    /\ warnings' = << >>
    /\ UNCHANGED <<error, unhandledRejections>>

\* the statements after `await onFileUpload(file)`
onUploaded(c, uploadedFileInfo) ==
    /\ uploadedFiles' = Append(uploadedFiles, uploadedFileInfo)
    /\ IF variant = "preview"
       THEN /\ fileContents' = withKey(fileContents, uploadedFileInfo.id, c.content)
            /\ showPreview' = withKey(showPreview, uploadedFileInfo.id, FALSE)
       ELSE UNCHANGED <<fileContents, showPreview>>
    /\ warnings' = << >>
    /\ UNCHANGED <<error, unhandledRejections>>

\* error.message without the instanceof test
errorMessageWithoutFallback(thrown) == MessageError(thrown.message)

\* error instanceof Error ? error.message : fallback
errorMessage(thrown) ==
    IF thrown.instanceofError THEN MessageError(thrown.message) ELSE UploadFailedFallback

\* catch (error)
catch(thrown) ==
    /\ error' = errorMessage(thrown)
    /\ unhandledRejections' = unhandledRejections
    /\ UNCHANGED <<uploadedFiles, warnings, fileContents, showPreview>>

\* a finally block that does not release the flag
finallyWithoutRelease(c) ==
    /\ isUploading' = isUploading
    /\ pending' = pending \ {c}
    /\ delegateCalls' = delegateCalls

\* finally: the invocation ends, nothing is rethrown and nothing is retried
finally(c) ==
    /\ isUploading' = FALSE
    /\ pending' = pending \ {c}
    /\ delegateCalls' = delegateCalls

\* reader.onload in the preview variant: the delegate is invoked next
readResolved(c) ==
    /\ c \in pending
    /\ c.phase = "readFileContent"
    /\ pending' = (pending \ {c})
            \cup {Continuation(c.call, c.file, "onFileUpload", readFileContent(c.file))}
    /\ delegateCalls' = delegateCalls + 1
    /\ UNCHANGED <<unhandledRejections, variant, maxSizeInMB, allowedFileTypes, settings, calls, widget>>

\* reader.onerror in the preview variant
readRejected(c) ==
    /\ c \in pending
    /\ c.phase = "readFileContent"
    /\ catch(ErrorInstance(ReadFailedMessage))
    /\ finally(c)
    /\ UNCHANGED <<variant, maxSizeInMB, allowedFileTypes, settings, calls, isDragging>>

\* a completion that validates the file again, under the current props,
\* before listing it
uploadSettledRevalidating(c, outcome) ==
    /\ c \in pending
    /\ c.phase = "onFileUpload"
    /\ outcome \in DelegateOutcomes(c.file, c.call)
    /\ IF outcome.ok
       THEN IF validateFile(c.file).ok
            THEN onUploaded(c, outcome.info)
            ELSE UNCHANGED <<uploadedFiles, fileContents, showPreview, warnings,
                            error, unhandledRejections>>
       ELSE catch(outcome.thrown)
    /\ finally(c)
    /\ UNCHANGED <<variant, maxSizeInMB, allowedFileTypes, settings, calls, isDragging>>

\* the promise returned by onFileUpload settles
uploadSettled(c, outcome) ==
    /\ c \in pending
    /\ c.phase = "onFileUpload"
    /\ outcome \in DelegateOutcomes(c.file, c.call)
    /\ IF outcome.ok THEN onUploaded(c, outcome.info) ELSE catch(outcome.thrown)
    /\ finally(c)
    /\ UNCHANGED <<variant, maxSizeInMB, allowedFileTypes, settings, calls, isDragging>>

(***************************************************************************)
(* The file list actions.                                                  *)
(***************************************************************************)
ids(list) == {list[i].id : i \in 1..Len(list)}

removeFile(fileId) ==
    /\ fileId \in ids(uploadedFiles)
    /\ uploadedFiles' = withoutId(uploadedFiles, fileId)
    /\ IF variant = "preview"
       THEN /\ fileContents' = withoutKey(fileContents, fileId)
            /\ showPreview' = withoutKey(showPreview, fileId)
       ELSE UNCHANGED <<fileContents, showPreview>>
    /\ UNCHANGED <<unhandledRejections, variant, maxSizeInMB, allowedFileTypes, settings, isDragging,
                   isUploading, error, warnings, pending, calls, delegateCalls>>

\* !prev[fileId], where a missing key reads as undefined
togglePreview(fileId) ==
    /\ variant = "preview"
    /\ fileId \in ids(uploadedFiles)
    /\ showPreview' = withKey(showPreview, fileId,
                              IF fileId \in DOMAIN showPreview
                              THEN ~showPreview[fileId] ELSE TRUE)
    /\ UNCHANGED <<unhandledRejections, variant, maxSizeInMB, allowedFileTypes, settings, isDragging,
                   isUploading, uploadedFiles, error, warnings, fileContents,
                   pending, calls, delegateCalls>>

(***************************************************************************)
(* The settings tab of the host page.                                      *)
(***************************************************************************)
setMaxFileSize(value) ==
    /\ value \in SizeOptions
    /\ settings < MaxSettings
    /\ value # maxSizeInMB
    /\ maxSizeInMB' = value
    /\ settings' = settings + 1
    /\ UNCHANGED <<unhandledRejections, variant, allowedFileTypes, pending, calls, delegateCalls, widget>>

addCustomFileType(customFileType) ==
    /\ settings < MaxSettings
    /\ customFileType # ""
    /\ ~includes(allowedFileTypes, customFileType)
    /\ allowedFileTypes' = Append(allowedFileTypes, customFileType)
    /\ settings' = settings + 1
    /\ UNCHANGED <<unhandledRejections, variant, maxSizeInMB, pending, calls, delegateCalls, widget>>

removeFileType(typeToRemove) ==
    /\ settings < MaxSettings
    /\ includes(allowedFileTypes, typeToRemove)
    /\ allowedFileTypes' = withoutType(allowedFileTypes, typeToRemove)
    /\ settings' = settings + 1
    /\ UNCHANGED <<unhandledRejections, variant, maxSizeInMB, pending, calls, delegateCalls, widget>>

Next ==
    \/ \E files \in FileLists(PickedFiles) : handleFileDrop(files)
    \/ \E files \in FileLists(PickedFiles) : handleFileInput(files)
    \/ \E c \in pending : readResolved(c)
    \/ \E c \in pending : readRejected(c)
    \/ \E c \in pending : \E outcome \in DelegateOutcomes(c.file, c.call) : uploadSettled(c, outcome)
    \/ \E fileId \in ids(uploadedFiles) : removeFile(fileId)
    \/ \E fileId \in ids(uploadedFiles) : togglePreview(fileId)
    \/ \E value \in PickedSizes : setMaxFileSize(value)
    \/ \E customFileType \in CustomFileTypes : addCustomFileType(customFileType)
    \/ \E typeToRemove \in {allowedFileTypes[i] : i \in 1..Len(allowedFileTypes)} :
            removeFileType(typeToRemove)

Spec == Init /\ [][Next]_vars

(***************************************************************************)
(* The widget mounted with other props: the validation rules are a         *)
(* function of the file and of the two props, which the page can bring to  *)
(* any of these values before the first file arrives.  The props then stay *)
(* fixed.                                                                  *)
(***************************************************************************)
PropFileTypes ==
    { DefaultFileTypes, << >>, <<"image/png">>, Append(DefaultFileTypes, "text/plain") }

InitValidate ==
    /\ variant \in {"basic", "preview"}
    /\ maxSizeInMB \in SizeOptions
    /\ allowedFileTypes \in PropFileTypes
    /\ isDragging = FALSE
    /\ isUploading = FALSE
    /\ uploadedFiles = << >>
    /\ error = Null
    /\ warnings = << >>
    /\ fileContents = EmptyMap
    /\ showPreview = EmptyMap
    /\ pending = {}
    /\ calls = 0
    /\ delegateCalls = 0
    /\ settings = 0
    /\ unhandledRejections = 0

NextValidate ==
    \/ \E files \in FileLists(Files) : handleFileDrop(files)
    \/ \E files \in FileLists(Files) : handleFileInput(files)
    \/ \E c \in pending : readResolved(c)
    \/ \E c \in pending : readRejected(c)
    \/ \E c \in pending : \E outcome \in DelegateOutcomes(c.file, c.call) : uploadSettled(c, outcome)

SpecValidate == InitValidate /\ [][NextValidate]_vars

(***************************************************************************)
(* The file list actions and the drag feedback of the drop zone on a list  *)
(* of earlier uploads: any list of records with distinct ids is the result *)
(* of that many successful uploads.                                        *)
(***************************************************************************)
MaxList == 3

AcceptedByDefault ==
    {f \in Files : f.size <= DefaultMaxSizeInMB * MB /\ includes(DefaultFileTypes, f.type)}

Records == {mockResponse(f, id) : f \in AcceptedByDefault, id \in 1..MaxList}

\* exactly MaxList uploads have succeeded, in any order of completion
UploadedLists ==
    {list \in [1..MaxList -> Records] :
        \A i, j \in 1..MaxList : i # j => list[i].id # list[j].id}

fileOf(info) ==
    CHOOSE f \in Files : f.name = info.name /\ f.size = info.size /\ f.type = info.type

recordOf(list, id) == list[CHOOSE i \in 1..Len(list) : list[i].id = id]

InFlightFile == CHOOSE f \in AcceptedByDefault : nameTooLong(f)

InitList ==
    /\ variant \in {"basic", "preview"}
    /\ maxSizeInMB = DefaultMaxSizeInMB
    /\ allowedFileTypes = DefaultFileTypes
    /\ isDragging = FALSE
    /\ uploadedFiles \in UploadedLists
    /\ error = Null
    /\ isUploading \in BOOLEAN
    /\ pending = IF isUploading
                 THEN {Continuation(MaxList + 1, InFlightFile, "onFileUpload",
                                    IF variant = "preview"
                                    THEN readFileContent(InFlightFile) ELSE NoContent)}
                 ELSE {}
    /\ warnings = IF isUploading THEN newWarnings(InFlightFile) ELSE << >>
    /\ fileContents = IF variant = "preview"
                      THEN [id \in ids(uploadedFiles) |->
                              readFileContent(fileOf(recordOf(uploadedFiles, id)))]
                      ELSE EmptyMap
    /\ showPreview = IF variant = "preview"
                     THEN [id \in ids(uploadedFiles) |-> FALSE]
                     ELSE EmptyMap
    /\ calls = IF isUploading THEN MaxList + 1 ELSE MaxList
    /\ delegateCalls = calls
    /\ settings = 0
    /\ unhandledRejections = 0

NextList ==
    \/ \E fileId \in ids(uploadedFiles) : removeFile(fileId)
    \/ \E fileId \in ids(uploadedFiles) : togglePreview(fileId)
    \/ onDragOver
    \/ onDragLeave
    \/ \E files \in FileLists({}) : handleFileDrop(files)

SpecList == InitList /\ [][NextList]_vars

(***************************************************************************)
(* Properties.                                                             *)
(***************************************************************************)
limit == maxSizeInMB * 1024 * 1024

hasNearLimitWarning(list) == \E i \in 1..Len(list) : list[i].kind = "near-limit"

callsOf(continuations) == {c.call : c \in continuations}

\* C1: isUploading is true exactly while one upload is in flight (the read
\* that precedes the delegate call in the preview variant counts as part of
\* the upload): never with none, never with two or more, never false with one.
C1_IsUploadingIffOneInFlight == isUploading <=> Cardinality(pending) = 1

\* C2: whenever an accepted handleFileUpload invocation ends, by resolution
\* or rejection, isUploading is false afterwards; with nothing in flight it
\* is false, and it becomes true again only by accepting a file.
C2_ReleasedOnCompletion ==
    [][ /\ (callsOf(pending') # callsOf(pending) /\ callsOf(pending') \subseteq callsOf(pending)
              => ~isUploading')
        /\ (pending' = {} => ~isUploading')
        /\ (~isUploading /\ isUploading' => calls' = calls + 1) ]_vars

C2_Witness ==
    /\ pending = {}
    /\ ~isUploading
    /\ calls = 2
    /\ Len(uploadedFiles) = 1
    /\ error = MessageError("Network Error")

\* C3: a handleFileUpload step whose validation rejects the file sets the
\* error and does nothing else: no delegate call, no invocation in flight,
\* isUploading and uploadedFiles as before.
C3_RejectedStops ==
    [][ \A f \in Files :
          handleFileUpload(f) /\ (sizeExceeded(f) \/ typeNotAllowed(f))
          => /\ error' \in {SizeError(maxSizeInMB), TypeError(allowedFileTypes)}
             /\ delegateCalls' = delegateCalls
             /\ pending' = pending
             /\ calls' = calls
             /\ isUploading' = isUploading
             /\ uploadedFiles' = uploadedFiles ]_vars

C3_Witness ==
    /\ error = TypeError(allowedFileTypes)
    /\ isUploading
    /\ Cardinality(pending) = 1
    /\ delegateCalls = 2
    /\ Len(uploadedFiles) = 1

\* C4: a file larger than maxSizeInMB * 1024 * 1024 bytes is rejected with
\* the size-exceeded error, whatever its type and the allowed types.
C4_SizeErrorFirst ==
    [][ \A f \in Files :
          handleFileUpload(f) /\ f.size > limit
          => /\ error' = SizeError(maxSizeInMB)
             /\ pending' = pending ]_vars

\* the only file over 10 MB is a PDF, which this list does not allow
C4_Witness ==
    /\ maxSizeInMB = ServerLimitInMB
    /\ allowedFileTypes = <<"image/png">>
    /\ error = SizeError(ServerLimitInMB)

\* C5 as stated: every file whose type is not in a non-empty allowedTypes is
\* rejected with the type-not-allowed error, and an empty allowedTypes
\* rejects no file for its type.
C5_TypeErrorForEveryDisallowedType ==
    [][ \A f \in Files :
          handleFileUpload(f)
          => /\ (Len(allowedFileTypes) > 0 /\ ~includes(allowedFileTypes, f.type)
                   => error' = TypeError(allowedFileTypes))
             /\ (Len(allowedFileTypes) = 0 /\ f.size <= limit
                   => error' = Null /\ calls' = calls + 1) ]_vars

\* C5 amended: every file whose type is not in a non-empty allowedTypes is
\* rejected, with the type-not-allowed error when its size is within the
\* limit and with the size-exceeded error when it is not; an empty
\* allowedTypes rejects no file for its type.
C5_TypeErrorWithinLimit ==
    [][ \A f \in Files :
          handleFileUpload(f)
          => /\ (Len(allowedFileTypes) > 0 /\ ~includes(allowedFileTypes, f.type)
                   => /\ pending' = pending
                      /\ calls' = calls
                      /\ error' = IF f.size <= limit THEN TypeError(allowedFileTypes)
                                                     ELSE SizeError(maxSizeInMB))
             /\ (Len(allowedFileTypes) = 0 /\ f.size <= limit
                   => error' = Null /\ calls' = calls + 1) ]_vars

\* a file was rejected for its type; by C4 its size was within the limit
C5_Witness ==
    /\ Len(allowedFileTypes) > 0
    /\ error = TypeError(allowedFileTypes)
    /\ calls = 0

\* with an empty list a file of an unlisted type is in flight
C5_EmptyListAccepts ==
    /\ allowedFileTypes = << >>
    /\ error = Null
    /\ \E c \in pending : c.file.type = "application/zip"

\* C6: a file within the size limit whose type is allowed passes validation:
\* the error is null right after, whatever it was before, and the basic
\* widget invokes the delegate with the file in the same callback, with or
\* without warnings.
C6_AcceptedClearsErrorAndUploads ==
    [][ \A f \in Files :
          handleFileUpload(f) /\ f.size <= limit /\ includes(allowedFileTypes, f.type)
          => /\ error' = Null
             /\ variant = "basic"
                  => /\ delegateCalls' = delegateCalls + 1
                     /\ \E c \in pending' \ pending :
                           c.file = f /\ c.phase = "onFileUpload" ]_vars

C6_Witness ==
    /\ variant = "basic"
    /\ error = Null
    /\ warnings # << >>
    /\ delegateCalls = 2
    /\ Cardinality(pending) = 1
    /\ uploadedFiles = << >>

\* C7: an accepted file gets the near-limit warning iff
\* 0.8 * limit < size <= limit; at exactly 80% of the limit there is none.
C7_NearLimitIffAbove80Percent ==
    [][ \A f \in Files :
          handleFileUpload(f) /\ ~sizeExceeded(f) /\ ~typeNotAllowed(f)
          => (hasNearLimitWarning(warnings') <=> (5 * f.size > 4 * limit /\ f.size <= limit)) ]_vars

\* the only upload so far is of a file of exactly 80% of the limit
C7_Witness ==
    /\ calls = 1
    /\ \E c \in pending : 5 * c.file.size = 4 * limit
    /\ warnings = << >>

\* C8: a successful completion of a delegate call appends the returned
\* record at the end of uploadedFiles and leaves warnings empty, also with
\* another upload in flight.
C8_SuccessAppendsAndClearsWarnings ==
    [][ \A c \in pending : \A outcome \in DelegateOutcomes(c.file, c.call) :
          uploadSettled(c, outcome) /\ outcome.ok
          => /\ Len(uploadedFiles') = Len(uploadedFiles) + 1
             /\ uploadedFiles' = Append(uploadedFiles, outcome.info)
             /\ warnings' = << >> ]_vars

\* a record is listed and warnings are empty although the validation of the
\* upload still in flight had raised the no-extension warning
C8_Witness ==
    /\ Len(uploadedFiles) = 1
    /\ warnings = << >>
    /\ \E c \in pending : noExtension(c.file)

\* C9: removeFile(id) leaves exactly the records with another id, unchanged
\* and in their order, and changes neither isUploading, error, warnings nor
\* the uploads in flight.
C9_RemoveFileKeepsTheOthers ==
    [][ \A fileId \in ids(uploadedFiles) :
          removeFile(fileId)
          => /\ fileId \notin ids(uploadedFiles')
             /\ uploadedFiles' = SelectSeq(uploadedFiles, LAMBDA info : info.id # fileId)
             /\ isUploading' = isUploading
             /\ error' = error
             /\ warnings' = warnings
             /\ pending' = pending
             /\ delegateCalls' = delegateCalls ]_vars

\* one of the MaxList records was removed while an upload is in flight
C9_Witness ==
    /\ Len(uploadedFiles) = MaxList - 1
    /\ isUploading
    /\ pending # {}
    /\ warnings # << >>

C11_CompletionOrder ==
    [][ /\ \A i, j \in 1..Len(uploadedFiles') :
              i < j /\ uploadedFiles'[j].id \in ids(uploadedFiles)
              => uploadedFiles'[i].id \in ids(uploadedFiles)
        /\ \A c \in pending : \A outcome \in DelegateOutcomes(c.file, c.call) :
              uploadSettled(c, outcome) /\ outcome.ok
              => /\ uploadedFiles'[Len(uploadedFiles')] = outcome.info
                 /\ \A d \in pending \ {c} : d.call \notin ids(uploadedFiles') ]_vars

\* the upload started second completed first and is listed first
C11_Witness ==
    /\ Len(uploadedFiles) = 2
    /\ uploadedFiles[1].id = 2
    /\ uploadedFiles[2].id = 1

\* C12: a change of maxSizeInMB or allowedFileTypes changes nothing in the
\* widget (uploadedFiles, error, warnings, the uploads in flight); an upload
\* in flight is appended on success whatever the settings have become; and
\* a validation accepts or rejects by the values the settings have when it
\* runs.
C12_SettingsNotRetroactive ==
    [][ /\ (maxSizeInMB' # maxSizeInMB \/ allowedFileTypes' # allowedFileTypes)
              => /\ uploadedFiles' = uploadedFiles
                 /\ error' = error
                 /\ warnings' = warnings
                 /\ pending' = pending
                 /\ isUploading' = isUploading
        /\ \A c \in pending : \A outcome \in DelegateOutcomes(c.file, c.call) :
              uploadSettled(c, outcome) /\ outcome.ok
              => uploadedFiles' = Append(uploadedFiles, outcome.info)
        /\ \A f \in Files :
              handleFileUpload(f)
              => IF /\ f.size <= maxSizeInMB * 1024 * 1024
                    /\ \/ allowedFileTypes = << >>
                       \/ \E i \in 1..Len(allowedFileTypes) : allowedFileTypes[i] = f.type
                 THEN error' = Null /\ calls' = calls + 1
                 ELSE /\ calls' = calls
                      /\ error' \in {SizeError(maxSizeInMB), TypeError(allowedFileTypes)} ]_vars

\* the limit was lowered while a file was in flight: the file is listed
\* although it is over the new limit, and the next file was rejected by the
\* new limit
C12_Witness ==
    /\ settings = 1
    /\ maxSizeInMB < DefaultMaxSizeInMB
    /\ Len(uploadedFiles) = 1
    /\ uploadedFiles[1].size > limit
    /\ error = SizeError(maxSizeInMB)
    /\ calls = 1

\* C13: in the preview variant a failed read of the file's content fails the
\* read step only: the delegate is still invoked for the accepted file, whose
\* invocation goes on to await the delegate, and the read failure is not
\* shown as the error of the upload.
C13_ReadFailureIndependentOfUpload ==
    [][ \A c \in pending :
          readRejected(c)
          => /\ delegateCalls' = delegateCalls + 1
             /\ \E d \in pending' : d.call = c.call /\ d.phase = "onFileUpload"
             /\ error' = error ]_vars

\* C14: warnings are recomputed by every validation: after handleFileUpload
\* has validated a file, accepted or rejected, every warning shown is a
\* warning of that file (all of them when the file is accepted), and none is
\* left from an earlier file.
C14_WarningsRecomputedPerValidation ==
    [][ \A f \in Files :
          handleFileUpload(f)
          => /\ \A i \in 1..Len(warnings') :
                  \E j \in 1..Len(newWarnings(f)) : warnings'[i] = newWarnings(f)[j]
             /\ error' = Null => warnings' = newWarnings(f) ]_vars

\* C15: in the preview variant the ids with an entry in fileContents and the
\* ids with an entry in showPreview are, in every reachable state, the ids of
\* the records in uploadedFiles, and a successful upload enters its record
\* with the preview flag false.
C15_PreviewMapsFollowList ==
    /\ [](variant = "preview"
            => /\ DOMAIN fileContents = ids(uploadedFiles)
               /\ DOMAIN showPreview = ids(uploadedFiles))
    /\ [][ \A c \in pending : \A outcome \in DelegateOutcomes(c.file, c.call) :
              uploadSettled(c, outcome) /\ outcome.ok /\ variant = "preview"
              => /\ outcome.info.id \in DOMAIN showPreview'
                 /\ showPreview'[outcome.info.id] = FALSE ]_vars

\* of two accepted uploads only the second is listed (the first failed, or
\* its record was removed), and its preview has been toggled on
C15_Witness ==
    /\ variant = "preview"
    /\ calls = 2
    /\ pending = {}
    /\ ids(uploadedFiles) = {2}
    /\ DOMAIN showPreview = {2}
    /\ showPreview[2]

=============================================================================
